---- MODULE Spec2Model ----
(***************************************************************************)
(* Model of the guest runtime of crates/guest-rust/src/lib.rs: the         *)
(* Resource<T> handle wrapper (from_handle, take_handle, handle, new,      *)
(* dtor, into_inner, lift_borrow, Deref, DerefMut, Drop), the boundary     *)
(* intrinsics of the WasmResource / RustResource traits it calls, and the  *)
(* boxed Option<T> representation slots behind exported resources.         *)
(*                                                                         *)
(* Execution contexts interleave at the granularity of the atomic          *)
(* accesses of the handle field: take_handle is one atomic swap, the       *)
(* destructor is an atomic load followed by the call of T::drop, and       *)
(* into_inner is its body followed by the destructor of its by-value       *)
(* argument.  The context that destroys a Resource is identified with that *)
(* Resource; every other step is taken by some other context.  A panic, a  *)
(* failed assertion or a boundary trap ends the instance (wasm32 guests    *)
(* abort on panic): no action is enabled after it.                         *)
(***************************************************************************)
EXTENDS Integers, Sequences, FiniteSets, TLC

\* ------------------------------------------------------------- bounds
NumRes == 2        \* Resource objects that are ever constructed
MaxHandle == 0     \* valid handle values are 0..MaxHandle
NumSlots == 1      \* heap addresses available to Box::new
NumVals == 2       \* host values are 1..NumVals
MaxTakes == 2      \* take_handle calls recorded per Resource
HandleBits == 8    \* width of a handle in the model (u32 in the source)
NumCtx == 2        \* execution contexts that enter exported functions
NumExports == 3    \* exported entry points
MaxCalls == 3      \* invocations of exported entry points
NumBlocks == 1     \* addresses the allocator can hand out
MaxLen == 2        \* largest buffer length requested
NumBytes == 2      \* byte values a buffer holds: 0..NumBytes-1
MaxAlignLog == 2   \* alignments are 2^0..2^MaxAlignLog
CharWindow == 6    \* codes lifted on each side of a boundary of the scalar ranges

\* u32::MAX, the "taken" sentinel of the handle field: the all-ones value of the
\* handle's width.  The model checker's integers are 32-bit signed, so the width
\* is scaled down to HandleBits; handles are opaque and only ever compared.
MAX == 2^HandleBits - 1

RIds == 1..NumRes
ValidHandles == 0..MaxHandle
Handles == ValidHandles \cup {MAX}
Addrs == 1..NumSlots
Values == 1..NumVals

\* ------------------------------------------------ RawRep<T> = Option<T>
Some(v) == [tag |-> "Some", val |-> v]
None == [tag |-> "None", val |-> 0]
\* an address Box::new has not handed out yet / one whose Box was released
Unalloc == [tag |-> "Unalloc", val |-> 0]
Freed == [tag |-> "Freed", val |-> 0]

VARIABLES
  handle,      \* Resource id -> value of its `handle: AtomicU32` field
  rstate,      \* Resource id -> "alive" | "exiting" | "dropping" | "dead"
  loaded,      \* Resource id -> the value its destructor loaded from the field
  table,       \* boundary handle table: handle -> rep token, 0 when not live
  slot,        \* heap: address -> RawRep / Unalloc / Freed
  failure,     \* "none", or how the instance ended
  owned,       \* history: Resource id -> the handle it was constructed with
  takes,       \* history: Resource id -> the values its take_handle calls returned
  dropLog,     \* history: Resource id -> handles its destructor passed to T::drop
  takenFirst,  \* history: Resource id -> take_handle had returned when its destructor began
  released,    \* history: address -> number of times dtor released its Box
  origin,      \* history: address -> the value Resource::new boxed there
  lastOp       \* history: what the step just taken was given and returned

resvars == <<handle, rstate, loaded, table, slot, failure, owned, takes, dropLog,
             takenFirst, released, origin, lastOp>>

\* ------------------------------------------------- state of the rt module
VARIABLES
  build,        \* cfg!(debug_assertions): "debug" | "release", fixed per instance
  RUN,          \* run_ctors_once: `static mut RUN: bool`
  cpc,          \* context -> where it is in an exported function, and which one
  invocations,  \* history: run_ctors_once invocations begun so far
  ctorsAt,      \* history: the invocations that called __wasm_call_ctors, in order
  bodyLog,      \* history: bodies of exported functions run, with the ctor runs before each
  heap,         \* the allocator's memory: address -> block
  call,         \* history: the last call of cabi_realloc / dealloc and its outcome
  liftIn,       \* the wire value handed to bool_lift / char_lift
  liftOut       \* what the lift made of it

ctorvars == <<RUN, cpc, invocations, ctorsAt, bodyLog>>
allocvars == <<heap, call>>
liftvars == <<liftIn, liftOut>>
rtvars == <<build, ctorvars, allocvars, liftvars>>

vars == <<resvars, rtvars>>

\* The Resources constructed so far are the domain of handle.
Ext(f, x, v) == [y \in (DOMAIN f) \cup {x} |-> IF y = x THEN v ELSE f[y]]
Born == DOMAIN handle
NextRes == Cardinality(Born) + 1

\* lastOp: the step just taken, when it constructed a Resource, looked into a
\* representation slot or failed: the handle it was given or passed to the
\* boundary, the token it resolved, what it returned (the id of the Resource
\* constructed, the host value) and whether it returned at all.  Quiet after
\* any other step.
Op(name, h, rep, ret, ok) == [op |-> name, h |-> h, rep |-> rep, ret |-> ret, ok |-> ok]
Quiet == Op("none", 0, 0, 0, TRUE)

ResInit ==
  /\ handle = <<>>
  /\ rstate = <<>>
  /\ loaded = <<>>
  /\ table = [h \in Handles |-> 0]
  /\ slot = [a \in Addrs |-> Unalloc]
  /\ failure = "none"
  /\ owned = <<>>
  /\ takes = <<>>
  /\ dropLog = <<>>
  /\ takenFirst = <<>>
  /\ released = [a \in Addrs |-> 0]
  /\ origin = [a \in Addrs |-> 0]
  /\ lastOp = Quiet

\* ---------------------------------------- initial state of the rt module
Ctxs == 1..NumCtx
Exports == 1..NumExports
Builds == {"debug", "release"}
\* a context outside every exported function
Idle == [at |-> "idle", entry |-> 0, inv |-> 0]

\* static mut RUN: bool = false
CtorsInit ==
  /\ RUN = FALSE
  /\ cpc = [c \in Ctxs |-> Idle]
  /\ invocations = 0
  /\ ctorsAt = <<>>
  /\ bodyLog = <<>>

\* Block addresses: spaced so that blocks of up to MaxLen bytes never overlap,
\* and aligned to some of the alignments only.  0 is the null pointer.
Null == 0
HeapAddrs == {MaxLen * k : k \in 1..NumBlocks}
Aligns == {2^k : k \in 0..MaxAlignLog}
Bytes == 0..(NumBytes - 1)
FreeBlock == [live |-> FALSE, size |-> 0, align |-> 1, bytes |-> <<>>]

\* Layout::from_size_align_unchecked(size, align)
Layout(size, align) == [size |-> size, align |-> align]
NoLayout == Layout(0, 0)

\* The record of a call: its arguments, the allocator function it called with
\* the layout and size it passed, the contents of the old block and whether the
\* address returned was free before the call, the pointer returned, how the call
\* failed and the layout reported then, and whether it ran into undefined
\* behaviour of the allocator.
Call(fn, old_ptr, old_len, align, new_len) ==
  [fn |-> fn, old_ptr |-> old_ptr, old_len |-> old_len, align |-> align,
   new_len |-> new_len, used |-> "none", layout |-> NoLayout, size |-> 0,
   before |-> <<>>, fresh |-> FALSE, returned |-> FALSE, ret |-> Null,
   failure |-> "none", reported |-> NoLayout, ub |-> FALSE]
NoCall == Call("none", Null, 0, 1, 0)


AllocInit ==
  /\ heap = [a \in HeapAddrs |-> FreeBlock]
  /\ call = NoCall

\* no lift requested
Lifted(fn, tag, b, c, ub) == [fn |-> fn, tag |-> tag, b |-> b, c |-> c, ub |-> ub]
Pending == Lifted("none", "pending", FALSE, 0, FALSE)
LiftQuiet ==
  /\ liftIn = 0
  /\ liftOut = Pending

Init ==
  /\ ResInit
  /\ build = "debug"
  /\ CtorsInit
  /\ AllocInit
  /\ LiftQuiet

Running == failure = "none"

\* The Resource exists: references to it may be used by other contexts.
Exists(r) == r \in Born /\ rstate[r] # "dead"
\* The Resource is in the hands of its owner, no call on it by value under way.
Alive(r) == r \in Born /\ rstate[r] = "alive"

\* ------------------------------------------------------------ from_handle
\* from_handle with its assertion compiled out
from_handle_assert_off(h) == TRUE

\* assert!(handle != u32::MAX)
from_handle_assert(h) == h # MAX

\* Self { handle: AtomicU32::new(handle), .. }: the value of the handle field
from_handle_field(h) == h

Construct(h) ==
  LET r == NextRes IN
  /\ handle' = Ext(handle, r, from_handle_field(h))
  /\ rstate' = Ext(rstate, r, "alive")
  /\ loaded' = Ext(loaded, r, 0)
  /\ owned' = Ext(owned, r, h)
  /\ takes' = Ext(takes, r, <<>>)
  /\ dropLog' = Ext(dropLog, r, <<>>)
  /\ takenFirst' = Ext(takenFirst, r, FALSE)

NoConstruct == UNCHANGED <<handle, rstate, loaded, owned, takes, dropLog, takenFirst>>

\* A handle held by no Resource that exists: the boundary hands an own handle to
\* one owner, and take_handle leaves its caller the owner of the raw handle.
Unheld(h) == \A r \in Born : Exists(r) => handle[r] # h

\* Generated code wraps a handle coming in from the boundary, or re-wraps a raw
\* handle it took: a live handle that no wrapper holds.  Nothing but the
\* assertion keeps it from passing the sentinel.
from_handle(h) ==
  /\ Running
  /\ NextRes <= NumRes
  /\ h = MAX \/ (table[h] # 0 /\ Unheld(h))
  /\ IF from_handle_assert(h)
       THEN /\ Construct(h)
            /\ failure' = failure
            /\ lastOp' = Op("from_handle", h, 0, NextRes, TRUE)
       ELSE /\ NoConstruct
            /\ failure' = "assert"
            /\ lastOp' = Op("from_handle", h, 0, 0, FALSE)
  /\ UNCHANGED <<table, slot, released, origin>>
  /\ UNCHANGED rtvars

\* ------------------------------------------------------------ take_handle
\* take_handle reading the field without storing the sentinel
take_handle_swap_load(cur) == [ret |-> cur, field |-> cur]
\* take_handle storing 0 where the sentinel belongs
take_handle_swap_zero(cur) == [ret |-> cur, field |-> 0]

\* resource.handle.swap(u32::MAX, Relaxed): one atomic read-modify-write
take_handle_swap(cur) == [ret |-> cur, field |-> MAX]

\* Any context holding a reference may call it while the Resource exists, also
\* while another context is inside the Resource's destructor.
take_handle(r) ==
  /\ Running
  /\ Exists(r)
  /\ Len(takes[r]) < MaxTakes
  /\ LET sw == take_handle_swap(handle[r]) IN
       /\ handle' = [handle EXCEPT ![r] = sw.field]
       /\ takes' = [takes EXCEPT ![r] = Append(@, sw.ret)]
  /\ lastOp' = Quiet
  /\ UNCHANGED <<rstate, loaded, table, slot, failure, owned, dropLog, takenFirst,
                 released, origin>>
  /\ UNCHANGED rtvars

\* ------------------------------------------------------------ handle
\* a read of the field done with swap(u32::MAX) where load belongs
handle_load_swap(cur) == [ret |-> cur, field |-> MAX]

\* resource.handle.load(Relaxed): the value read, and the field after the read
handle_load(cur) == [ret |-> cur, field |-> cur]

Load(r) == handle_load(handle[r])
AfterLoad(r) == [handle EXCEPT ![r] = Load(r).field]

handle_read(r) ==
  /\ Running
  /\ Exists(r)
  /\ Load(r).ret \in Handles
  /\ handle' = AfterLoad(r)
  /\ lastOp' = Quiet
  /\ UNCHANGED <<rstate, loaded, table, slot, failure, owned, takes, dropLog,
                 takenFirst, released, origin>>
  /\ UNCHANGED rtvars

\* ------------------------------------------------- boundary intrinsics
\* T::new(rep): the boundary registers rep under a handle that is not live: the
\* lowest free index of its table, or, the trait letting it return any u32, the
\* all-ones value.
T_new_handles ==
  {h \in Handles : /\ table[h] = 0
                   /\ h = MAX \/ \A g \in ValidHandles : table[g] = 0 => h <= g}

\* T::rep(handle): the token registered under a live handle; 0 stands for the
\* boundary's trap on a handle that is not live.
T_rep(h) == table[h]

\* Resource::dtor(rep): let _ = Box::from_raw(rep as *mut RawRep<T>), run by the
\* boundary when it drops the handle of an exported resource.
dtor(s) == Freed

\* what is stored at a token; a token that is no address of a Box is dangling
SlotAt(rep) == IF rep \in Addrs THEN slot[rep] ELSE Unalloc
Boxed(rep) == SlotAt(rep).tag \in {"Some", "None"}

DtorSlots(rep) == IF rep \in Addrs THEN [slot EXCEPT ![rep] = dtor(@)] ELSE slot
DtorReleased(rep) == IF rep \in Addrs THEN [released EXCEPT ![rep] = @ + 1] ELSE released
\* releasing a token that holds no Box is undefined behaviour
DtorFailure(rep) == IF Boxed(rep) THEN failure ELSE "ub"

\* ------------------------------------------------------------ Resource::new
\* Box::into_raw(Box::new(Some(val))) as usize: a fresh address, never one that
\* was handed out before
Box_new == CHOOSE a \in Addrs : slot[a] = Unalloc /\ \A b \in Addrs : slot[b] = Unalloc => a <= b

\* Resource::new boxing a default value in place of val
new_boxed_default(v) == Some(1)

\* the slot contents Resource::new boxes
new_boxed(v) == Some(v)

\* the representation token Resource::new registers for the Box at address a
new_rep(a) == a

Resource_new(v) ==
  /\ Running
  /\ NextRes <= NumRes
  /\ \E a \in Addrs : slot[a] = Unalloc
  /\ \E h \in T_new_handles :
       LET a == Box_new IN
       /\ slot' = [slot EXCEPT ![a] = new_boxed(v)]
       /\ origin' = [origin EXCEPT ![a] = v]
       /\ table' = [table EXCEPT ![h] = new_rep(a)]
       /\ IF from_handle_assert(h)
            THEN /\ Construct(h)
                 /\ failure' = failure
                 /\ lastOp' = Op("new", h, new_rep(a), NextRes, TRUE)
            ELSE /\ NoConstruct
                 /\ failure' = "assert"
                 /\ lastOp' = Op("new", h, new_rep(a), 0, FALSE)
  /\ UNCHANGED released
  /\ UNCHANGED rtvars

\* ------------------------------------------- into_inner, Deref, lift_borrow
\* Option::take: the slot is left None, its previous contents are returned
RawRep_take(s) == [ret |-> s, slot |-> None]
\* Option::as_ref / Option::as_mut: a view, the slot is left as it is
RawRep_as_ref(s) == [ret |-> s, slot |-> s]
RawRep_as_mut(s) == [ret |-> s, slot |-> s]
\* unwrap_unchecked: None is not rejected
unwrap_unchecked(o) == TRUE

\* Option::unwrap panics on None
unwrap_ok(o) == o.tag = "Some"

\* into_inner moving the value out of the Box and releasing the Box itself
into_inner_unbox(s) == [ret |-> s, slot |-> Freed]

\* into_inner looking at the value where take belongs
into_inner_as_ref(s) == RawRep_as_ref(s)

\* RawRep::take(&mut *(rep as *mut RawRep<T>))
into_inner_slot(s) == RawRep_take(s)
\* lift_borrow moving the value out of the slot where as_ref belongs
lift_borrow_take(s) == RawRep_take(s)
\* RawRep::as_ref(&*(rep as *const RawRep<T>)) in lift_borrow
lift_borrow_slot(s) == RawRep_as_ref(s)
\* RawRep::as_ref(...) in deref
deref_slot(s) == RawRep_as_ref(s)
\* deref_mut taking the value out of the slot where as_mut belongs
deref_mut_take(s) == RawRep_take(s)

\* RawRep::as_mut(...) in deref_mut
deref_mut_slot(s) == RawRep_as_mut(s)

\* Reading the slot behind token rep and unwrapping the result res of the
\* Option operation applied to it.
SlotAccess(name, h, rep, res) ==
  IF ~Boxed(rep)
    THEN /\ failure' = "ub"
         /\ slot' = slot
         /\ lastOp' = Op(name, h, rep, 0, FALSE)
    ELSE /\ slot' = [slot EXCEPT ![rep] = res.slot]
         /\ IF unwrap_ok(res.ret)
              THEN /\ failure' = failure
                   /\ lastOp' = Op(name, h, rep, res.ret.val, TRUE)
              ELSE /\ failure' = "unwrap"
                   /\ lastOp' = Op(name, h, rep, 0, FALSE)

\* The slot the token of handle h points at
SlotOf(h) == SlotAt(T_rep(h))

\* let rep = T::rep(self.handle.load(Relaxed)); then the slot access, whose
\* Option operation yields res
ViaHandle(name, h, res) ==
  IF T_rep(h) = 0
    THEN /\ failure' = "trap"
         /\ slot' = slot
         /\ lastOp' = Op(name, h, 0, 0, FALSE)
    ELSE SlotAccess(name, h, T_rep(h), res)

\* into_inner(resource: Self): the body; the by-value argument then goes out of
\* scope (drop_load, drop_call).
into_inner(r) ==
  /\ Running
  /\ Alive(r)
  /\ ViaHandle("into_inner", Load(r).ret, into_inner_slot(SlotOf(Load(r).ret)))
  /\ handle' = AfterLoad(r)
  /\ rstate' = [rstate EXCEPT ![r] = IF failure' = "none" THEN "exiting" ELSE @]
  /\ UNCHANGED <<loaded, table, owned, takes, dropLog, takenFirst, released, origin>>
  /\ UNCHANGED rtvars

deref(r) ==
  /\ Running
  /\ Alive(r)
  /\ ViaHandle("deref", Load(r).ret, deref_slot(SlotOf(Load(r).ret)))
  /\ handle' = AfterLoad(r)
  /\ UNCHANGED <<rstate, loaded, table, owned, takes, dropLog, takenFirst,
                 released, origin>>
  /\ UNCHANGED rtvars

deref_mut(r) ==
  /\ Running
  /\ Alive(r)
  /\ ViaHandle("deref_mut", Load(r).ret, deref_mut_slot(SlotOf(Load(r).ret)))
  /\ handle' = AfterLoad(r)
  /\ UNCHANGED <<rstate, loaded, table, owned, takes, dropLog, takenFirst,
                 released, origin>>
  /\ UNCHANGED rtvars

\* lift_borrow(rep): generated code passes the token the boundary supplies for a
\* borrowed argument, a token registered under a live handle.
lift_borrow(rep) ==
  /\ Running
  /\ \E h \in Handles : table[h] = rep
  /\ SlotAccess("lift_borrow", 0, rep, lift_borrow_slot(SlotAt(rep)))
  /\ UNCHANGED <<handle, rstate, loaded, table, owned, takes, dropLog, takenFirst,
                 released, origin>>
  /\ UNCHANGED rtvars

\* ------------------------------------------------------------ Drop
\* a destructor without the sentinel arm
drop_match_always(val) == {val}

\* match self.handle.load(Relaxed) { u32::MAX => {}, other => T::drop(other) }:
\* the handles the destructor passes to T::drop, given the value it loaded
drop_match(val) == IF val = MAX THEN {} ELSE {val}

\* the destructor's load: an alive Resource goes out of scope, or the argument
\* of into_inner does when the body is done
drop_load(r) ==
  /\ Running
  /\ r \in Born
  /\ rstate[r] \in {"alive", "exiting"}
  /\ loaded' = [loaded EXCEPT ![r] = Load(r).ret]
  /\ handle' = AfterLoad(r)
  /\ rstate' = [rstate EXCEPT ![r] = "dropping"]
  /\ takenFirst' = [takenFirst EXCEPT ![r] = takes[r] # <<>>]
  /\ lastOp' = Quiet
  /\ UNCHANGED <<table, slot, failure, owned, takes, dropLog, released, origin>>
  /\ UNCHANGED rtvars

\* T::drop(h): the boundary drops a live handle and, the resource being an
\* exported one, runs dtor on its token; a handle that is not live traps.
T_drop(h) ==
  IF table[h] = 0
    THEN /\ failure' = "trap"
         /\ lastOp' = Op("drop", h, 0, 0, FALSE)
         /\ UNCHANGED <<table, slot, released>>
    ELSE /\ table' = [table EXCEPT ![h] = 0]
         /\ slot' = DtorSlots(table[h])
         /\ released' = DtorReleased(table[h])
         /\ failure' = DtorFailure(table[h])
         /\ lastOp' = Quiet

\* the rest of the destructor: the match on the loaded value
drop_call(r) ==
  /\ Running
  /\ r \in Born
  /\ rstate[r] = "dropping"
  /\ rstate' = [rstate EXCEPT ![r] = "dead"]
  /\ LET hs == drop_match(loaded[r]) IN
       IF hs = {}
         THEN /\ lastOp' = Quiet
              /\ UNCHANGED <<table, slot, released, failure, dropLog>>
         ELSE LET h == CHOOSE x \in hs : TRUE IN
                /\ dropLog' = [dropLog EXCEPT ![r] = Append(@, h)]
                /\ T_drop(h)
  /\ UNCHANGED <<handle, loaded, owned, takes, takenFirst, origin>>
  /\ UNCHANGED rtvars

\* The boundary drops a live handle that no Resource holds any more: one whose
\* ownership take_handle transferred out of its wrapper.
host_drop(h) ==
  /\ Running
  /\ table[h] # 0
  /\ Unheld(h)
  /\ T_drop(h)
  /\ UNCHANGED <<handle, rstate, loaded, owned, takes, dropLog, takenFirst, origin>>
  /\ UNCHANGED rtvars

Next ==
  \/ \E h \in Handles : from_handle(h)
  \/ \E r \in RIds : take_handle(r)
  \/ \E r \in RIds : handle_read(r)
  \/ \E v \in Values : Resource_new(v)
  \/ \E r \in RIds : into_inner(r)
  \/ \E r \in RIds : deref(r)
  \/ \E r \in RIds : deref_mut(r)
  \/ \E rep \in Addrs : lift_borrow(rep)
  \/ \E r \in RIds : drop_load(r)
  \/ \E r \in RIds : drop_call(r)
  \/ \E h \in ValidHandles : host_drop(h)

Spec == Init /\ [][Next]_vars

\* ---------------------------------------------------------- run_ctors_once
\* Generated code calls run_ctors_once at the start of every exported function.
\* A context is "idle" outside exported functions, then at the flag check
\* ("check"), at the call of __wasm_call_ctors ("call"), inside that call and
\* then at the store to RUN ("set"), and in the rest of the exported function
\* ("body").
At(c, where) == cpc[c].at = where
Goto(c, where) == [cpc EXCEPT ![c].at = where]

\* a guard that does not read the flag
ctors_guard_always(run) == TRUE

\* if !RUN
ctors_guard(run) == ~run

\* RUN = true
ctors_flag == TRUE

\* an exported function is entered: its first statement is run_ctors_once()
export_enter(c, e) ==
  /\ At(c, "idle")
  /\ invocations < MaxCalls
  /\ invocations' = invocations + 1
  /\ cpc' = [cpc EXCEPT ![c] = [at |-> "check", entry |-> e, inv |-> invocations + 1]]
  /\ UNCHANGED <<RUN, ctorsAt, bodyLog>>
  /\ UNCHANGED <<resvars, build, allocvars, liftvars>>

\* the read of RUN in `if !RUN`
ctors_check(c) ==
  /\ At(c, "check")
  /\ cpc' = Goto(c, IF ctors_guard(RUN) THEN "call" ELSE "body")
  /\ UNCHANGED <<RUN, invocations, ctorsAt, bodyLog>>
  /\ UNCHANGED <<resvars, build, allocvars, liftvars>>

\* __wasm_call_ctors()
ctors_call(c) ==
  /\ At(c, "call")
  /\ ctorsAt' = Append(ctorsAt, cpc[c].inv)
  /\ cpc' = Goto(c, "set")
  /\ UNCHANGED <<RUN, invocations, bodyLog>>
  /\ UNCHANGED <<resvars, build, allocvars, liftvars>>

\* RUN = true; run_ctors_once returns
ctors_set(c) ==
  /\ At(c, "set")
  /\ RUN' = ctors_flag
  /\ cpc' = Goto(c, "body")
  /\ UNCHANGED <<invocations, ctorsAt, bodyLog>>
  /\ UNCHANGED <<resvars, build, allocvars, liftvars>>

\* the rest of the exported function runs and returns
export_body(c) ==
  /\ At(c, "body")
  /\ bodyLog' = Append(bodyLog, [entry |-> cpc[c].entry, ctors |-> Len(ctorsAt)])
  /\ cpc' = [cpc EXCEPT ![c] = Idle]
  /\ UNCHANGED <<RUN, invocations, ctorsAt>>
  /\ UNCHANGED <<resvars, build, allocvars, liftvars>>

\* One execution context (the single-threaded wasm32 instance): the exported
\* functions are entered one after the other.
MainCtx == CHOOSE c \in Ctxs : \A d \in Ctxs : c <= d

NextCtorsSeq ==
  \/ \E e \in Exports : export_enter(MainCtx, e)
  \/ ctors_check(MainCtx)
  \/ ctors_call(MainCtx)
  \/ ctors_set(MainCtx)
  \/ export_body(MainCtx)

SpecCtorsSeq == Init /\ [][NextCtorsSeq]_vars

\* Several contexts enter exported functions concurrently.  RUN is a plain
\* `static mut`: its reads and writes by different contexts interleave freely,
\* a read seeing the value before or after a concurrent write.
NextCtors ==
  \/ \E c \in Ctxs, e \in Exports : export_enter(c, e)
  \/ \E c \in Ctxs : ctors_check(c)
  \/ \E c \in Ctxs : ctors_call(c)
  \/ \E c \in Ctxs : ctors_set(c)
  \/ \E c \in Ctxs : export_body(c)

SpecCtors == Init /\ [][NextCtors]_vars

\* One execution context whose static initializers call back into exported
\* functions.  The contexts are the frames of its call stack: frame c + 1 is
\* entered while frame c is inside __wasm_call_ctors (called at "call", the
\* store to RUN at "set" still to come), and frame c resumes when the frames
\* above it have returned.
Top(c) ==
  /\ IF c = MainCtx THEN TRUE ELSE At(c - 1, "set")
  /\ \A d \in Ctxs : d > c => At(d, "idle")

NextCtorsNested ==
  \/ \E c \in Ctxs, e \in Exports : Top(c) /\ export_enter(c, e)
  \/ \E c \in Ctxs : Top(c) /\ ctors_check(c)
  \/ \E c \in Ctxs : Top(c) /\ ctors_call(c)
  \/ \E c \in Ctxs : Top(c) /\ ctors_set(c)
  \/ \E c \in Ctxs : Top(c) /\ export_body(c)

SpecCtorsNested == Init /\ [][NextCtorsNested]_vars

\* ------------------------------------------------- cabi_realloc, dealloc
Min(a, b) == IF a <= b THEN a ELSE b

\* The addresses the allocator may place a block of this alignment at
FreeAt(align) == {a \in HeapAddrs : ~heap[a].live /\ a % align = 0}
\* The contents a block of n bytes may have whose first bytes are those of pre:
\* fresh memory is uninitialised, its contents arbitrary
Filled(pre, n) ==
  {b \in [1..n -> Bytes] : \A i \in 1..Min(Len(pre), n) : b[i] = pre[i]}
Block(layout, size, bytes) ==
  [live |-> TRUE, size |-> size, align |-> layout.align, bytes |-> bytes]

\* alloc::alloc(layout): null, or a fresh block of layout.size bytes at an
\* address aligned to layout.align
alloc_alloc(layout) ==
  {[ptr |-> Null, heap |-> heap]} \cup
  {[ptr |-> a, heap |-> [heap EXCEPT ![a] = Block(layout, layout.size, b)]] :
     a \in FreeAt(layout.align), b \in Filled(<<>>, layout.size)}

\* alloc::realloc(ptr, layout, new_size): null with the old block untouched, or
\* a block of new_size bytes, in place or moved, that keeps the old contents up
\* to the smaller of the two sizes
alloc_realloc(ptr, layout, new_size) ==
  {[ptr |-> Null, heap |-> heap]} \cup
  {[ptr |-> a,
    heap |-> [[heap EXCEPT ![ptr] = FreeBlock]
                EXCEPT ![a] = Block(layout, new_size, b)]] :
     a \in {x \in {ptr} \cup FreeAt(layout.align) : x % layout.align = 0},
     b \in Filled(heap[ptr].bytes, new_size)}

\* the zero-length result being the null pointer
sentinel_null(align) == Null
\* return align as *mut u8
sentinel_ptr(align) == align

\* layout = Layout::from_size_align_unchecked(new_len, align) when old_len == 0,
\* Layout::from_size_align_unchecked(old_len, align) otherwise
realloc_layout(old_len, align, new_len) ==
  IF old_len = 0 THEN Layout(new_len, align) ELSE Layout(old_len, align)

\* a reallocation that asks for the old length again
realloc_keep_size(old_len, new_len) == old_len
\* the new size passed to alloc::realloc
realloc_new_size(old_len, new_len) == new_len

\* the assertion compiled out of every build
debug_assert_off(b, new_len) == TRUE
\* debug_assert_ne!(new_len, 0, ..): checked in debug builds only
debug_assert_ne(b, new_len) == b = "debug" => new_len # 0

\* a null check that never fires
is_null_never(ptr) == FALSE
\* ptr.is_null()
is_null(ptr) == ptr = Null

\* if cfg!(debug_assertions) { handle_alloc_error(layout) } else { unreachable }
on_null(b) == IF b = "debug" THEN "alloc_error" ELSE "unreachable"
\* what handle_alloc_error is given to report
on_null_report(b, layout) == IF b = "debug" THEN layout ELSE NoLayout

\* The instance has neither been terminated nor left defined behaviour
Up == call.failure = "none" /\ ~call.ub

\* The arguments callers pass: no old block (old_len = 0, any old pointer), or
\* a block they hold with the length and alignment it was allocated with
ReallocArgs ==
  {<<p, 0, al>> : p \in {Null} \cup HeapAddrs, al \in Aligns} \cup
  {<<p, heap[p].size, heap[p].align>> : p \in {a \in HeapAddrs : heap[a].live}}

\* The allocator's contract: the block is passed with the layout it has, and a
\* new size above zero
realloc_defined(ptr, layout, new_size) ==
  /\ ptr \in HeapAddrs /\ heap[ptr].live
  /\ layout = Layout(heap[ptr].size, heap[ptr].align)
  /\ new_size > 0

\* if ptr.is_null() { .. terminate .. } return ptr
Finish(c, out, layout) ==
  /\ heap' = out.heap
  /\ call' = IF is_null(out.ptr)
               THEN [c EXCEPT !.failure = on_null(build),
                              !.reported = on_null_report(build, layout)]
               ELSE [c EXCEPT !.returned = TRUE, !.ret = out.ptr,
                              !.fresh = out.ptr \in HeapAddrs /\ ~heap[out.ptr].live]

cabi_realloc(old_ptr, old_len, align, new_len) ==
  /\ Up
  /\ LET layout == realloc_layout(old_len, align, new_len)
         size == realloc_new_size(old_len, new_len)
         c == [Call("cabi_realloc", old_ptr, old_len, align, new_len)
                 EXCEPT !.before = IF old_len = 0 THEN <<>> ELSE heap[old_ptr].bytes]
     IN  IF old_len = 0
           THEN IF new_len = 0
                  THEN /\ heap' = heap
                       /\ call' = [c EXCEPT !.returned = TRUE, !.ret = sentinel_ptr(align)]
                  ELSE \E out \in alloc_alloc(layout) :
                         Finish([c EXCEPT !.used = "alloc", !.layout = layout,
                                          !.size = layout.size], out, layout)
           ELSE IF ~debug_assert_ne(build, new_len)
                  THEN /\ heap' = heap
                       /\ call' = [c EXCEPT !.failure = "debug_assert"]
                  ELSE \E out \in alloc_realloc(old_ptr, layout, size) :
                         Finish([c EXCEPT !.used = "realloc", !.layout = layout,
                                          !.size = size,
                                          !.ub = ~realloc_defined(old_ptr, layout, size)],
                                out, layout)
  /\ UNCHANGED <<resvars, build, ctorvars, liftvars>>

\* dealloc(ptr, size, align): nothing for size 0, alloc::dealloc otherwise
dealloc(ptr, size, align) ==
  /\ Up
  /\ heap' = IF size = 0 THEN heap ELSE [heap EXCEPT ![ptr] = FreeBlock]
  /\ call' = [Call("dealloc", ptr, size, align, 0)
                EXCEPT !.returned = TRUE,
                       !.used = IF size = 0 THEN "none" ELSE "dealloc",
                       !.layout = IF size = 0 THEN NoLayout ELSE Layout(size, align)]
  /\ UNCHANGED <<resvars, build, ctorvars, liftvars>>

NextRealloc ==
  \/ \E a \in ReallocArgs, n \in 0..MaxLen : cabi_realloc(a[1], a[2], a[3], n)
  \/ \E a \in ReallocArgs : dealloc(a[1], a[2], a[3])

\* The shim in a debug and in a release build
InitRealloc ==
  /\ ResInit
  /\ build \in Builds
  /\ CtorsInit
  /\ AllocInit
  /\ LiftQuiet

SpecRealloc == InitRealloc /\ [][NextRealloc]_vars

\* ---------------------------------------------------- bool_lift, char_lift
\* val: u8
U8Max == 255
U8 == 0..U8Max
\* val: u32.  The codes lifted: those around the ends of the ranges of scalar
\* values, and the largest ones the model checker's integers hold (codes from
\* there to u32::MAX are, like them, above every scalar value).
CharAnchors == {0, 65, 55296, 57343, 1114111, 2147483647 - 2 * CharWindow}
CharCodes ==
  UNION {{c \in (a - CharWindow)..(a + CharWindow) : c >= 0} : a \in CharAnchors}
LiftInputs == U8 \cup CharCodes

Value_bool(fn, b) == Lifted(fn, "value", b, 0, FALSE)
Value_char(fn, c) == Lifted(fn, "value", FALSE, c, FALSE)
Panic(fn) == Lifted(fn, "panic", FALSE, 0, FALSE)

\* a lift in the manner of C: every byte but 0 is true
bool_lift_nonzero(val) == Value_bool("bool_lift", val # 0)

\* match val { 0 => false, 1 => true, _ => panic!("invalid bool discriminant") }
bool_lift_checked(val) ==
  IF val = 0 THEN Value_bool("bool_lift", FALSE)
  ELSE IF val = 1 THEN Value_bool("bool_lift", TRUE)
  ELSE Panic("bool_lift")

\* core::mem::transmute::<u8, bool>(val): a byte other than 0 and 1 is not a
\* bool, and what the program then takes it for is undefined
bool_lift_unchecked(val) ==
  IF val \in {0, 1}
    THEN {Value_bool("bool_lift", val = 1)}
    ELSE {Lifted("bool_lift", "value", b, 0, TRUE) : b \in BOOLEAN}

\* a conversion that checks the upper end of the range only
from_u32_upto(val) == IF val > 1114111 THEN None ELSE Some(val)

\* core::char::from_u32(val): None unless val is a scalar value, a code up to
\* 0x10FFFF that is not a surrogate (0xD800..0xDFFF)
from_u32(val) ==
  IF val > 1114111 \/ (val >= 55296 /\ val <= 57343) THEN None ELSE Some(val)

\* core::char::from_u32(val).unwrap()
char_lift_checked(val) ==
  IF unwrap_ok(from_u32(val))
    THEN Value_char("char_lift", from_u32(val).val)
    ELSE Panic("char_lift")

\* core::char::from_u32_unchecked(val): the code is trusted; a char that is no
\* scalar value is undefined behaviour
char_lift_unchecked(val) ==
  Lifted("char_lift", "value", FALSE, val, ~unwrap_ok(from_u32(val)))

\* bool_lift(val: u8) -> bool
bool_lift ==
  /\ liftOut = Pending
  /\ liftIn \in U8
  /\ liftOut' \in IF build = "debug" THEN {bool_lift_checked(liftIn)}
                                     ELSE bool_lift_unchecked(liftIn)
  /\ UNCHANGED <<liftIn, resvars, build, ctorvars, allocvars>>

\* char_lift(val: u32) -> char
char_lift ==
  /\ liftOut = Pending
  /\ liftOut' = IF build = "debug" THEN char_lift_checked(liftIn)
                                   ELSE char_lift_unchecked(liftIn)
  /\ UNCHANGED <<liftIn, resvars, build, ctorvars, allocvars>>

NextLift ==
  \/ bool_lift
  \/ char_lift

\* A wire value arrives, in a debug or a release build
InitLift ==
  /\ ResInit
  /\ build \in Builds
  /\ CtorsInit
  /\ AllocInit
  /\ liftIn \in LiftInputs
  /\ liftOut = Pending

SpecLift == InitLift /\ [][NextLift]_vars
\* =================================================================== properties
Reals(r) == {i \in 1..Len(takes[r]) : takes[r][i] # MAX}
Dropped(r) == {dropLog[r][i] : i \in 1..Len(dropLog[r])}
SlotOps == {"into_inner", "deref", "deref_mut", "lift_borrow"}

\* C1: in the sequence of take_handle calls on one Resource, every call after
\* the first returns the sentinel, so at most one call returns a real handle.
C1_LaterTakesSeeSentinel ==
  \A r \in Born : \A i \in 2..Len(takes[r]) : takes[r][i] = MAX

\* a Resource whose first take_handle returned its handle and whose second
\* returned the sentinel
C1_Witness ==
  \E r \in Born : Len(takes[r]) = 2 /\ takes[r][1] = owned[r] /\ takes[r][2] = MAX

\* C2: a destroyed Resource whose take_handle had returned before its destructor
\* began made no call of T::drop; a destroyed Resource that was never taken made
\* exactly one, with the handle it owned.
C2_DropAfterTake ==
  \A r \in Born :
    rstate[r] = "dead" =>
      /\ takenFirst[r] => dropLog[r] = <<>>
      /\ takes[r] = <<>> => dropLog[r] = <<owned[r]>>

\* one Resource destroyed after it was taken and one destroyed untaken
C2_Witness ==
  /\ \E r \in Born : rstate[r] = "dead" /\ takenFirst[r] /\ dropLog[r] = <<>>
  /\ \E r \in Born : rstate[r] = "dead" /\ takes[r] = <<>> /\ Len(dropLog[r]) = 1

\* C3: however the take_handle calls of different contexts on one Resource
\* interleave, exactly one of them obtains the Resource's handle and every
\* other one observes the sentinel.
C3_ExactlyOneTaker ==
  \A r \in Born :
    takes[r] # <<>> =>
      /\ Cardinality(Reals(r)) = 1
      /\ \A i \in Reals(r) : takes[r][i] = owned[r]

\* two calls made by other contexts while the destructor of the Resource was
\* between its load and its call of T::drop
C3_Witness ==
  \E r \in Born : rstate[r] = "dropping" /\ ~takenFirst[r] /\ Len(takes[r]) = 2

\* C4: a handle take_handle returned to its caller is never passed to T::drop by
\* the destructor of the same Resource, in any interleaving of the two.
C4_TakenHandleNotDropped ==
  \A r \in Born : \A i \in Reals(r) : takes[r][i] \notin Dropped(r)

\* C5: the handle field of a Resource changes only from a valid handle to the
\* sentinel, and only in a take_handle step.
C5_OnlyLiveToTaken ==
  [][\A r \in Born :
       handle'[r] # handle[r] =>
         /\ handle[r] # MAX
         /\ handle'[r] = MAX
         /\ takes'[r] # takes[r]]_vars

\* a Resource that was taken twice and then destroyed, its field still the
\* sentinel
C5_Witness ==
  \E r \in Born : rstate[r] = "dead" /\ handle[r] = MAX /\ Len(takes[r]) = 2

\* C6: a construction given the sentinel fails with the assertion and builds no
\* Resource; any other construction builds a Resource that is alive and whose
\* handle field is the handle given.
C6_ConstructedLive ==
  lastOp.op \in {"from_handle", "new"} =>
    IF lastOp.h = MAX
      THEN failure = "assert" /\ ~lastOp.ok
      ELSE /\ lastOp.ok
           /\ lastOp.ret \in Born
           /\ rstate[lastOp.ret] = "alive"
           /\ handle[lastOp.ret] = lastOp.h
           /\ handle[lastOp.ret] # MAX

\* Resource::new has failed on a sentinel the boundary returned
C6_Witness ==
  lastOp.op = "new" /\ lastOp.h = MAX /\ failure = "assert"

\* C7: the token registered under a live handle is the address of a Box that
\* Resource::new made, and into_inner and deref return the value that was boxed
\* there.
C7_RoundTrip ==
  /\ \A h \in Handles : table[h] # 0 => Boxed(table[h]) /\ origin[table[h]] # 0
  /\ (lastOp.op \in {"into_inner", "deref"} /\ lastOp.ok) =>
       lastOp.rep \in Addrs /\ lastOp.ret = origin[lastOp.rep]

\* into_inner has returned the last of the host values
C7_Witness ==
  lastOp.op = "into_inner" /\ lastOp.ok /\ lastOp.ret = NumVals

\* C8: into_inner, lift_borrow, deref and deref_mut applied to a slot that is
\* empty fail in unwrap and return no value.
C8_EmptySlotRejected ==
  [][(lastOp'.op \in SlotOps /\ lastOp'.rep \in Addrs /\ SlotAt(lastOp'.rep) = None) =>
       (~lastOp'.ok /\ failure' = "unwrap")]_vars

\* a second into_inner has been rejected on a slot the first one emptied
C8_Witness ==
  /\ lastOp.op = "into_inner" /\ failure = "unwrap"
  /\ \E r \in Born : rstate[r] # "alive" /\ owned[r] = lastOp.h

\* C9: a slot holds Some(val) when Resource::new creates it; only into_inner
\* empties it, and an empty slot is never filled again.
C9_SlotEmptiedOnce ==
  [][\A a \in Addrs :
       /\ (slot[a].tag = "Unalloc" /\ slot'[a] # slot[a]) => slot'[a].tag = "Some"
       /\ (slot[a].tag = "Some" /\ slot'[a].tag # "Freed") =>
            \/ slot'[a] = slot[a]
            \/ slot'[a] = None /\ lastOp'.op = "into_inner" /\ lastOp'.rep = a
       /\ slot[a].tag = "None" => slot'[a].tag \in {"None", "Freed"}
       /\ slot[a].tag = "Freed" => slot'[a].tag = "Freed"]_vars

\* a slot emptied by into_inner whose Box is not yet released
C9_Witness ==
  \E a \in Addrs : slot[a] = None /\ lastOp.op = "into_inner" /\ lastOp.rep = a /\ lastOp.ok

\* C10: no Box is released twice, and no slot is read, written or released
\* after dtor released it.
C10_NoUseAfterFree ==
  /\ failure # "ub"
  /\ \A a \in Addrs : released[a] <= 1

\* the Box of a slot that into_inner had emptied has been released by dtor
C10_Witness ==
  \E a \in Addrs : released[a] = 1 /\ slot[a] = Freed /\ origin[a] # 0
                   /\ \E r \in Born : rstate[r] = "dead" /\ dropLog[r] # <<>>

\* C11: lift_borrow, deref and deref_mut on a populated slot return the value
\* in the slot and leave the slot, the handle field of every Resource, the
\* Resources' ownership and the boundary's handle table as they were; they call
\* neither the new nor the drop intrinsic and release no Box.
C11_BorrowFrame ==
  [][(/\ lastOp'.op \in {"lift_borrow", "deref", "deref_mut"}
      /\ SlotAt(lastOp'.rep).tag = "Some") =>
       /\ lastOp'.ok /\ lastOp'.ret = SlotAt(lastOp'.rep).val
       /\ slot' = slot
       /\ handle' = handle
       /\ rstate' = rstate /\ owned' = owned
       /\ table' = table /\ dropLog' = dropLog /\ released' = released]_vars

\* deref_mut has returned a view of the value of a slot that is still populated
C11_Witness ==
  /\ lastOp.op = "deref_mut" /\ lastOp.ok
  /\ SlotAt(lastOp.rep) = Some(lastOp.ret)
  /\ \E r \in Born : rstate[r] = "alive" /\ handle[r] = lastOp.h

\* C12: with the exported functions entered one after the other, in any order
\* and any number of times, __wasm_call_ctors is called at most once, in the
\* first invocation of run_ctors_once, and exactly one call of it precedes the
\* body of every exported function, the first one included.
C12_CtorsOnce ==
  /\ Len(ctorsAt) <= 1
  /\ \A i \in 1..Len(ctorsAt) : ctorsAt[i] = 1
  /\ \A i \in 1..Len(bodyLog) : bodyLog[i].ctors = 1
  /\ RUN => ctorsAt = <<1>>

\* all the invocations made, of different exported functions, the last one
\* first; the initializers ran in the first invocation only
C12_Witness ==
  /\ Len(bodyLog) = MaxCalls
  /\ bodyLog[1].entry = NumExports
  /\ bodyLog[2].entry # bodyLog[1].entry
  /\ ctorsAt = <<1>>
  /\ RUN

\* C13: when several contexts enter run_ctors_once concurrently before the flag
\* is set, __wasm_call_ctors is still called at most once.
C13_CtorsOnceConcurrent ==
  Len(ctorsAt) <= 1

Realloc == call.fn = "cabi_realloc"
AllocFailed == call.used # "none" /\ ~call.returned

\* C14: cabi_realloc with old_len = 0 and new_len = 0 returns the alignment
\* itself as the pointer, which is not null, and calls no allocator function
\* and changes no block, whatever the alignment and the old pointer.
C14_ZeroLengthSentinel ==
  (Realloc /\ call.old_len = 0 /\ call.new_len = 0) =>
    /\ call.returned /\ call.failure = "none"
    /\ call.ret = call.align /\ call.ret # Null
    /\ call.used = "none"

\* a zero-length request with the largest alignment and an old pointer that is
\* not null, made while a block is allocated
C14_Witness ==
  /\ Realloc /\ call.old_len = 0 /\ call.new_len = 0 /\ call.returned
  /\ call.align = 2^MaxAlignLog /\ call.old_ptr # Null
  /\ \E a \in HeapAddrs : heap[a].live

\* C15: when cabi_realloc returns for new_len > 0, the pointer returned is the
\* address of a block of exactly new_len bytes aligned to align: a block that
\* was free before the call and came from alloc when old_len = 0, and when
\* old_len > 0 the reallocated old block, whose first min(old_len, new_len)
\* bytes are the bytes the old block held, the old address released if the
\* block moved.
C15_ReallocBuffer ==
  (Realloc /\ call.returned /\ call.new_len > 0) =>
    /\ call.ret \in HeapAddrs
    /\ heap[call.ret].live
    /\ heap[call.ret].size = call.new_len
    /\ Len(heap[call.ret].bytes) = call.new_len
    /\ call.ret % call.align = 0
    /\ heap[call.ret].align = call.align
    /\ ~call.ub
    /\ call.old_len = 0 => call.used = "alloc" /\ call.fresh
    /\ call.old_len > 0 =>
         /\ call.used = "realloc"
         /\ call.layout = Layout(call.old_len, call.align)
         /\ \A i \in 1..Min(call.old_len, call.new_len) :
              heap[call.ret].bytes[i] = call.before[i]
         /\ call.ret # call.old_ptr => ~heap[call.old_ptr].live

\* a block grown to MaxLen bytes keeps a first byte that is not zero
C15_Witness ==
  /\ Realloc /\ call.returned
  /\ call.old_len > 0 /\ call.new_len = MaxLen /\ call.old_len < call.new_len
  /\ call.before[1] # 0
  /\ heap[call.ret].bytes[1] = call.before[1]

\* C16: cabi_realloc never returns null: when alloc or realloc returns null the
\* call does not return and the instance is terminated, by handle_alloc_error in
\* a debug build and by the unreachable trap in a release build.
C16_NeverReturnsNull ==
  Realloc =>
    /\ call.returned => call.ret # Null /\ call.failure = "none"
    /\ AllocFailed =>
         call.failure = IF build = "debug" THEN "alloc_error" ELSE "unreachable"

\* a reallocation has failed in a release build and ended in the trap, the old
\* block still allocated
C16_Witness ==
  /\ Realloc /\ call.used = "realloc" /\ ~call.returned
  /\ build = "release" /\ call.failure = "unreachable"
  /\ heap[call.old_ptr].live

\* C17: in a debug build a failed allocation is reported with the size
\* requested (new_len) and the alignment, on the fresh-allocation path and on
\* the reallocation path.
C17_ReportsRequestedSize ==
  (Realloc /\ build = "debug" /\ AllocFailed) =>
    /\ call.failure = "alloc_error"
    /\ call.reported = Layout(call.new_len, call.align)

\* C20: cabi_realloc with old_len > 0 and new_len = 0 fails in the assertion in
\* a debug build, before any allocator function is called; a release build has
\* no such check and calls realloc with the new size 0.
C20_ZeroNewLenRejected ==
  (Realloc /\ call.old_len > 0 /\ call.new_len = 0) =>
    IF build = "debug"
      THEN /\ call.failure = "debug_assert" /\ ~call.returned
           /\ call.used = "none"
           /\ heap[call.old_ptr].live
      ELSE /\ call.failure # "debug_assert"
           /\ call.used = "realloc" /\ call.size = 0

\* the assertion has rejected the shrinking of a block of MaxLen bytes to nothing
C20_Witness ==
  /\ Realloc /\ build = "debug" /\ call.failure = "debug_assert"
  /\ call.old_len = MaxLen /\ call.new_len = 0

\* C18: in a debug build bool_lift returns false for the byte 0 and true for the
\* byte 1, and panics, returning no boolean, for every byte from 2 to 255.
C18_BoolLiftChecked ==
  (build = "debug" /\ liftOut.fn = "bool_lift") =>
    /\ liftIn = 0 => liftOut = Value_bool("bool_lift", FALSE)
    /\ liftIn = 1 => liftOut = Value_bool("bool_lift", TRUE)
    /\ liftIn \in 2..255 => liftOut.tag = "panic"

\* the byte 255 has been rejected
C18_Witness ==
  build = "debug" /\ liftOut.fn = "bool_lift" /\ liftIn = 255 /\ liftOut.tag = "panic"

\* C19: in a debug build char_lift returns the character with code val when val
\* is a scalar value (at most 0x10FFFF and outside 0xD800..0xDFFF), and panics
\* for every other code.
C19_CharLiftChecked ==
  (build = "debug" /\ liftOut.fn = "char_lift") =>
    IF liftIn <= 1114111 /\ ~(55296 <= liftIn /\ liftIn <= 57343)
      THEN liftOut = Value_char("char_lift", liftIn)
      ELSE liftOut.tag = "panic"

\* the last surrogate, 0xDFFF, has been rejected
C19_Witness ==
  build = "debug" /\ liftOut.fn = "char_lift" /\ liftIn = 57343 /\ liftOut.tag = "panic"

\* C22: no boundary intrinsic is called with the sentinel u32::MAX: the
\* destructor passes it to T::drop for no Resource, and into_inner, deref and
\* deref_mut pass it to T::rep for none, a Resource that is Taken included.
C22_NoSentinelToIntrinsics ==
  /\ \A r \in Born : MAX \notin Dropped(r)
  /\ lastOp.op \in {"into_inner", "deref", "deref_mut", "drop"} => lastOp.h # MAX

\* C23: the flag is set by the first check, so that only the first invocation
\* of run_ctors_once calls __wasm_call_ctors: an invocation that begins once the
\* first check has been made, one made from inside the static initializers
\* included, finds the flag set and calls nothing.
C23_OnlyFirstInvocationRuns ==
  /\ \A i \in 1..Len(ctorsAt) : ctorsAt[i] = 1
  /\ \A c \in Ctxs : (cpc[c].inv > 1 /\ ~At(c, "check")) => At(c, "body")

\* take_handle returned a live handle to a context while the destructor of the
\* same Resource, in another context, had already loaded it: the handle has two
\* owners from then on.
Raced(q) == /\ rstate[q] \in {"dropping", "dead"}
            /\ takes[q] # <<>>
            /\ ~takenFirst[q]

\* The Resource is its handle's only owner and still holds it.
Sole(r) == takes[r] = <<>> /\ \A q \in Born : ~Raced(q)

\* C21: into_inner on a live Resource of an exported type returns the host value
\* that Resource::new boxed and leaves the slot empty.  The destructor of its
\* by-value argument, the handle being the Resource's alone, then loads the
\* Resource's handle while the slot is empty, and passes it to T::drop, once,
\* the slot still empty: the dtor the boundary runs releases an empty Box, the
\* handle is gone and the instance goes on.  Only into_inner empties a slot:
\* the last step is stated for every destructor that finds the slot empty.
C21_IntoInnerGivesUpHandle ==
  [][\A r \in Born :
       /\ (rstate[r] = "alive" /\ rstate'[r] = "exiting") =>
            /\ lastOp'.ok
            /\ lastOp'.h = handle[r]
            /\ lastOp'.ret = origin[lastOp'.rep]
            /\ slot'[lastOp'.rep] = None
            /\ dropLog'[r] = <<>>
       /\ (rstate[r] = "exiting" /\ rstate'[r] = "dropping" /\ Sole(r)) =>
            /\ loaded'[r] = owned[r]
            /\ drop_match(loaded'[r]) = {owned[r]}
            /\ SlotOf(owned[r]) = None
            /\ dropLog'[r] = <<>>
       /\ (/\ rstate[r] = "dropping" /\ rstate'[r] = "dead"
           /\ Sole(r) /\ SlotOf(loaded[r]) = None) =>
            /\ dropLog[r] = <<>>
            /\ dropLog'[r] = <<owned[r]>>
            /\ slot'[T_rep(owned[r])] = Freed
            /\ released'[T_rep(owned[r])] = 1
            /\ table'[owned[r]] = 0
            /\ failure' = "none"
  ]_vars
\* the argument of into_inner, sole owner of its handle, is in its destructor
\* and the slot is empty
C21_Witness ==
  \E r \in Born : /\ rstate[r] = "dropping"
                   /\ Sole(r)
                   /\ loaded[r] = owned[r]
                   /\ SlotOf(owned[r]) = None
                   /\ failure = "none"

====
